---- MODULE Spec2Model ----
(***************************************************************************)
(* A model of stealth_patch.js (src/unnamed/part_002): the script that is  *)
(* injected into every new document, and the patched methods page code     *)
(* calls afterwards.                                                       *)
(*                                                                         *)
(* The document is the state: the navigator's property descriptors (own    *)
(* and on its prototype), the wrapper chain of every patched method (its   *)
(* nesting depth over the native method), the own properties of window,    *)
(* one canvas, one AudioBuffer channel and the live Notification           *)
(* permission.  Apply is one run of the whole IIFE; the Call actions are   *)
(* page code calling a (patched or native) method.                         *)
(*                                                                         *)
(* JavaScript values are modelled as strings ("8", "true", "undefined"),   *)
(* so that values of different JavaScript types stay comparable.           *)
(***************************************************************************)
EXTENDS Integers, Sequences, FiniteSets, TLC

\* ------------------------------------------------------------------ bounds

\* How many times the script may be run on the same document.
MaxApply == 2
\* How many times page code reads the audio channel (the samples accumulate).
MaxAudioReads == 2
\* How many times page code reads the same canvas content between two draws.
MaxImageReads == 3
\* Width of the canvas in pixels (its height is 1): 4 bytes per pixel.
CanvasW == 3
\* Length of the AudioBuffer channel: index 100 is the second perturbed sample.
AudioLen == 101
\* How many own properties the window has when the script's sweep meets it.
WindowLen == 3
\* How many times the user starts a search (calls of handleSearch).
MaxSearches == 2
\* The largest maxAttempts a direct caller of pollTaskStatus passes.
MaxPollArg == 3

\* --------------------------------------------------- constants of the code

PixelStride == 10
PixelMask == 17
AudioStride == 100
\* 1e-7, in units of 1e-7 (samples are integers in that unit)
AudioEpsilon == 1
\* the maxAttempts Home passes to pollTaskStatus
HomeMaxAttempts == 40
UNMASKED_VENDOR_WEBGL == 37445
UNMASKED_RENDERER_WEBGL == 37446
\* gl.VENDOR and gl.MAX_TEXTURE_SIZE: two codes the script does not mask
OtherParams == {7936, 3379}

\* --------------------------------------------------------------- the host

\* Global constructors the script names; each may be missing in an engine.
Apis == {"HTMLCanvasElement", "CanvasRenderingContext2D", "WebGLRenderingContext",
         "AudioBuffer", "Notification"}

\* navigator properties the script reads or redefines
NavProps == {"languages", "platform", "hardwareConcurrency", "deviceMemory",
             "webdriver", "userAgentData", "plugins", "mimeTypes"}

\* the methods the script wraps
Methods == {"toDataURL", "getImageData", "getParameter", "getChannelData", "query"}

\* A property descriptor.  kind: "none" (no property), "data" or "getter".
NoProp == [kind |-> "none", val |-> "undefined", conf |-> TRUE]
DataProp(v, c) == [kind |-> "data", val |-> v, conf |-> c]
GetterProp(v, c) == [kind |-> "getter", val |-> v, conf |-> c]

VARIABLES
    apis,        \* the global constructors this engine has
    navOwn,      \* navigator's own property descriptors
    navProto,    \* the descriptors on navigator.__proto__
    hasPerms,    \* navigator.permissions is an object with a query method
    missing,     \* wrapped members this engine does not have (undefined)
    fn,          \* per method: how many wrappers are stacked on the native one
    win,         \* window's own properties, in creation order
    canvas,      \* the canvas: pixels, bound context, fillStyle, compositing
    audio,       \* the AudioBuffer's channel: its live sample buffer
    notifPerm,   \* Notification.permission, live
    gpu,         \* the GPU behind the WebGL context
    applied,     \* how many times the script has run
    escaped,     \* whether the last run let an exception out
    audioReads,  \* how many getChannelData calls page code has made
    ret,         \* what the last page call returned, and what the native saw
    firstImage,  \* the first getImageData result since the last apply or draw
    steps,       \* the blocks of the script in the order its last run entered them
    firstSamples, \* the first getChannelData result since the last apply
    winBefore,   \* window's own properties as the last run of the script found them
    isSearching,   \* Home: a search is in progress
    currentStatus, \* Home: the last task status the poll reported, or none
    error,         \* Home: the message of the error banner, or "null"
    query,         \* SearchBar: the text in the input
    loops,         \* the calls of pollTaskStatus (and of handleSearch) in flight
    started,       \* how many times handleSearch has been called
    lastEnd        \* how the try block of the last finished handleSearch ended

vars == <<apis, navOwn, navProto, hasPerms, missing, fn, win, canvas, audio,
          notifPerm, gpu, applied, escaped, audioReads, ret, firstImage, steps,
          firstSamples, winBefore,
          isSearching, currentStatus, error, query, loops, started, lastEnd>>

\* The state of the search page (frontend), which the injected script and the
\* page calls above do not touch.
searchVars == <<isSearching, currentStatus, error, query, loops, started, lastEnd>>

\* The state of the document the script is injected into, which the search
\* page does not touch.
patchVars == <<apis, navOwn, navProto, hasPerms, missing, fn, win, canvas, audio,
               notifPerm, gpu, applied, escaped, audioReads, ret, firstImage, steps,
               firstSamples, winBefore>>

\* What the script can change, as one value it is run on.
Host == [own |-> navOwn, proto |-> navProto, fn |-> fn, win |-> win, log |-> <<>>]

\* ------------------------------------------------------ strings as letters

\* A property name of window is a sequence of characters, so that the
\* script's regular expression can be matched against it.
UpperChars == <<"A","B","C","D","E","F","G","H","I","J","K","L","M",
                "N","O","P","Q","R","S","T","U","V","W","X","Y","Z">>
LowerChars == <<"a","b","c","d","e","f","g","h","i","j","k","l","m",
                "n","o","p","q","r","s","t","u","v","w","x","y","z">>

Lower(c) ==
    IF \E i \in 1..26 : UpperChars[i] = c
    THEN LowerChars[CHOOSE i \in 1..26 : UpperChars[i] = c]
    ELSE c

LowerCase(s) == [i \in 1..Len(s) |-> Lower(s[i])]

StartsWith(s, pat) == Len(s) >= Len(pat) /\ SubSeq(s, 1, Len(pat)) = pat

Contains(s, pat) ==
    \E i \in 1..(Len(s) - Len(pat) + 1) : SubSeq(s, i, i + Len(pat) - 1) = pat

\* /^__?cdc_|webdriver|__driver|selenium|driver/i.test(k)
ArtifactPattern(k) ==
    LET s == LowerCase(k) IN
    \/ StartsWith(s, <<"_","c","d","c","_">>)
    \/ StartsWith(s, <<"_","_","c","d","c","_">>)
    \/ Contains(s, <<"w","e","b","d","r","i","v","e","r">>)
    \/ Contains(s, <<"_","_","d","r","i","v","e","r">>)
    \/ Contains(s, <<"s","e","l","e","n","i","u","m">>)
    \/ Contains(s, <<"d","r","i","v","e","r">>)

\* names the script spells out
N__webdriver == <<"_","_","w","e","b","d","r","i","v","e","r">>
N_webdriver == <<"_","w","e","b","d","r","i","v","e","r">>
MarkerName == <<"_","_","s","t","e","a","l","t","h","_","p","a","t","c","h",
                "_","a","p","p","l","i","e","d","_","_">>

\* ------------------------------------------------- exceptions and try/catch

\* The outcome of a piece of the script: the host it leaves, and whether an
\* exception is on its way out of it.
Ok(h) == [h |-> h, exc |-> FALSE]
Throw(h) == [h |-> h, exc |-> TRUE]

\* s1; s2: the second statement runs only when the first did not throw
Then(r, F(_)) == IF r.exc THEN r ELSE F(r.h)

\* try { ... } catch (e) {}
TryCatch(r) == [r EXCEPT !.exc = FALSE]

\* -------------------------------------------------------- host primitives

\* Object.defineProperty(navigator or its prototype, prop, desc): a TypeError
\* when the property exists and is not configurable.
DefineProperty(h, where, prop, desc) ==
    IF h[where][prop].kind # "none" /\ ~h[where][prop].conf
    THEN Throw(h)
    ELSE Ok([h EXCEPT ![where][prop] = desc])

\* Reading navigator[prop]: the own property, else the prototype's.
NavGetIn(own, proto, prop) ==
    IF own[prop].kind # "none" THEN own[prop].val
    ELSE IF proto[prop].kind # "none" THEN proto[prop].val
    ELSE "undefined"

NavGet(h, prop) == NavGetIn(h.own, h.proto, prop)

\* The length of a plugin or mimeType list value.
ListLength(v) ==
    CASE v = "PluginArray(0)" -> 0
      [] v = "PluginArray(5)" -> 5
      [] v = "MimeTypeArray(0)" -> 0
      [] v = "MimeTypeArray(2)" -> 2
      [] v = "fakePlugins(2)" -> 2
      [] v = "[]" -> 0
      [] OTHER -> 0

WinIndex(w, name) == {i \in 1..Len(w) : w[i].name = name}
WinHas(w, name) == WinIndex(w, name) # {}
WinProp(w, name) == w[CHOOSE i \in WinIndex(w, name) : TRUE]

RemoveAt(w, i) == SubSeq(w, 1, i - 1) \o SubSeq(w, i + 1, Len(w))

\* delete window[name], in strict mode: true when there is no such property,
\* a TypeError when it is not configurable.
DeleteWindowProp(h, name) ==
    IF ~WinHas(h.win, name) THEN Ok(h)
    ELSE IF ~WinProp(h.win, name).conf THEN Throw(h)
    ELSE Ok([h EXCEPT !.win = RemoveAt(h.win, CHOOSE i \in WinIndex(h.win, name) : TRUE)])

\* A variant that sets the property by assignment, window[name] = v: a new
\* property made that way is enumerable.
DefineWindowValue_Assign(h, name, v) ==
    LET d == [name |-> name, conf |-> TRUE, enum |-> TRUE, val |-> v] IN
    IF ~WinHas(h.win, name) THEN Ok([h EXCEPT !.win = Append(h.win, d)])
    ELSE IF ~WinProp(h.win, name).conf THEN Throw(h)
    ELSE Ok([h EXCEPT !.win[CHOOSE i \in WinIndex(h.win, name) : TRUE].val = v])

\* Object.defineProperty(window, name, {value, configurable: true}): on a new
\* property the descriptor's missing fields default to false (not enumerable,
\* not writable); on an existing configurable one they stay as they are; a
\* non-configurable one cannot be made configurable, a TypeError.
DefineWindowValue(h, name, v) ==
    LET d == [name |-> name, conf |-> TRUE, enum |-> FALSE, val |-> v] IN
    IF ~WinHas(h.win, name) THEN Ok([h EXCEPT !.win = Append(h.win, d)])
    ELSE IF ~WinProp(h.win, name).conf THEN Throw(h)
    ELSE Ok([h EXCEPT !.win[CHOOSE i \in WinIndex(h.win, name) : TRUE].val = v])

\* ---------------------------------------------------------------- the script

\* A variant of safeDefine that installs its getter non-configurable.
safeDefine_Locked(h, prop, value) ==
    TryCatch(DefineProperty(h, "own", prop, GetterProp(value, FALSE)))

\* safeDefine(navigator, prop, value): a configurable getter, errors ignored
safeDefine(h, prop, value) ==
    TryCatch(DefineProperty(h, "own", prop, GetterProp(value, TRUE)))

\* A variant that wraps a method once only: a run that finds the wrapper
\* installed leaves it.
WrapMethod_Once(h, api, m) ==
    IF api \in apis THEN Ok([h EXCEPT !.fn[m] = 1]) ELSE Throw(h)

\* X.prototype.m = function () { ... orig.apply(this, arguments) ... }:
\* one more wrapper on the chain of method m.  Naming a missing global is a
\* ReferenceError.
WrapMethod(h, api, m) ==
    IF api \in apis THEN Ok([h EXCEPT !.fn[m] = @ + 1]) ELSE Throw(h)

\* A variant that covers only the prototype's webdriver, not the navigator's own.
NavigatorBlock_ProtoOnly(h) ==
    LET s1 == safeDefine(h, "languages", "en-US,en")
        s2 == Then(s1, LAMBDA x : safeDefine(x, "platform", "Win32"))
        s3 == Then(s2, LAMBDA x : safeDefine(x, "hardwareConcurrency", "8"))
        s4 == Then(s3, LAMBDA x : safeDefine(x, "deviceMemory", "8"))
        s6 == Then(s4, LAMBDA x : TryCatch(
                  DefineProperty(x, "proto", "webdriver", GetterProp("undefined", TRUE))))
    IN  TryCatch(s6)

\* --- navigator properties ---
NavigatorBlock(h) ==
    LET s1 == safeDefine(h, "languages", "en-US,en")
        s2 == Then(s1, LAMBDA x : safeDefine(x, "platform", "Win32"))
        s3 == Then(s2, LAMBDA x : safeDefine(x, "hardwareConcurrency", "8"))
        s4 == Then(s3, LAMBDA x : safeDefine(x, "deviceMemory", "8"))
        s5 == Then(s4, LAMBDA x : TryCatch(
                  DefineProperty(x, "own", "webdriver", GetterProp("undefined", TRUE))))
        s6 == Then(s5, LAMBDA x : TryCatch(
                  DefineProperty(x, "proto", "webdriver", GetterProp("undefined", TRUE))))
    IN  TryCatch(s6)

\* --- userAgentData fallback ---
UserAgentDataBlock(h) ==
    TryCatch(IF NavGet(h, "userAgentData") = "undefined"
             THEN safeDefine(h, "userAgentData", "fakeUserAgentData")
             ELSE Ok(h))

\* A variant of the canvas block without its try/catch.
CanvasBlock_NoTry(h) ==
    Then(WrapMethod(h, "HTMLCanvasElement", "toDataURL"),
         LAMBDA x : WrapMethod(x, "CanvasRenderingContext2D", "getImageData"))

\* --- Canvas fingerprint mitigation ---
CanvasBlock(h) ==
    LET s1 == WrapMethod(h, "HTMLCanvasElement", "toDataURL")
        s2 == Then(s1, LAMBDA x : WrapMethod(x, "CanvasRenderingContext2D", "getImageData"))
    IN  TryCatch(s2)

\* A variant of the WebGL block without its try/catch.
WebGLBlock_NoTry(h) == WrapMethod(h, "WebGLRenderingContext", "getParameter")

\* --- WebGL fingerprint mitigation ---
WebGLBlock(h) == TryCatch(WrapMethod(h, "WebGLRenderingContext", "getParameter"))

\* --- Audio fingerprint mitigation ---
AudioBlock(h) == TryCatch(WrapMethod(h, "AudioBuffer", "getChannelData"))

\* A variant of the sweep with no try inside the loop: the first deletion that
\* fails ends it.
RECURSIVE SweepNames_AbortOnFailure(_, _, _)
SweepNames_AbortOnFailure(r, names, i) ==
    IF r.exc \/ i > Len(names) THEN r
    ELSE SweepNames_AbortOnFailure(
            IF ArtifactPattern(names[i])
            THEN DeleteWindowProp(r.h, names[i])
            ELSE Ok(r.h),
            names, i + 1)

\* for (const k of names) { try { if (pattern.test(k)) { try { delete window[k] } catch {} } } catch {} }
RECURSIVE SweepNames(_, _, _)
SweepNames(r, names, i) ==
    IF r.exc \/ i > Len(names) THEN r
    ELSE SweepNames(
            TryCatch(IF ArtifactPattern(names[i])
                     THEN TryCatch(DeleteWindowProp(r.h, names[i]))
                     ELSE Ok(r.h)),
            names, i + 1)

\* A variant that deletes the two legacy names and sweeps nothing else.
ArtifactBlock_LegacyOnly(h) ==
    LET s1 == TryCatch(DeleteWindowProp(h, N__webdriver))
        s2 == Then(s1, LAMBDA x : TryCatch(DeleteWindowProp(x, N_webdriver)))
    IN  TryCatch(s2)

\* --- Clear common automation artifacts from window ---
ArtifactBlock(h) ==
    LET s1 == TryCatch(DeleteWindowProp(h, N__webdriver))
        s2 == Then(s1, LAMBDA x : TryCatch(DeleteWindowProp(x, N_webdriver)))
        s3 == Then(s2, LAMBDA x :
                  SweepNames(Ok(x), [i \in 1..Len(x.win) |-> x.win[i].name], 1))
    IN  TryCatch(s3)

\* --- navigator.permissions.query patch ---
PermissionsBlock(h) ==
    TryCatch(IF hasPerms /\ "query" \notin missing
             THEN Ok([h EXCEPT !.fn["query"] = @ + 1])
             ELSE Ok(h))

\* A variant that installs the synthetic lists whatever the native ones hold.
PluginsBlock_Always(h) ==
    LET s1 == safeDefine(h, "plugins", "fakePlugins(2)")
        s2 == Then(s1, LAMBDA x : safeDefine(x, "mimeTypes", "[]"))
    IN  TryCatch(s2)

\* --- Fake plugins and mimeTypes ---
PluginsBlock(h) ==
    LET s1 == IF NavGet(h, "plugins") # "undefined" /\ ListLength(NavGet(h, "plugins")) = 0
              THEN safeDefine(h, "plugins", "fakePlugins(2)")
              ELSE Ok(h)
        s2 == Then(s1, LAMBDA x :
                  IF NavGet(x, "mimeTypes") # "undefined"
                     /\ ListLength(NavGet(x, "mimeTypes")) = 0
                  THEN safeDefine(x, "mimeTypes", "[]")
                  ELSE Ok(x))
    IN  TryCatch(s2)

\* --- mark script as applied ---
MarkerBlock(h) == TryCatch(DefineWindowValue(h, MarkerName, "true"))

\* Control enters the block of that name.
Enter(h, block) == [h EXCEPT !.log = Append(@, block)]

\* The IIFE, top to bottom.  An exception that leaves a block leaves the script.
RunScript(h) ==
    LET b1 == NavigatorBlock(Enter(h, "navigator"))
        b2 == Then(b1, LAMBDA x : UserAgentDataBlock(Enter(x, "userAgentData")))
        b3 == Then(b2, LAMBDA x : CanvasBlock(Enter(x, "canvas")))
        b4 == Then(b3, LAMBDA x : WebGLBlock(Enter(x, "webgl")))
        b5 == Then(b4, LAMBDA x : AudioBlock(Enter(x, "audio")))
        b6 == Then(b5, LAMBDA x : ArtifactBlock(Enter(x, "artifacts")))
        b7 == Then(b6, LAMBDA x : PermissionsBlock(Enter(x, "permissions")))
        b8 == Then(b7, LAMBDA x : PluginsBlock(Enter(x, "plugins")))
    IN  Then(b8, LAMBDA x : MarkerBlock(Enter(x, "marker")))

\* ------------------------------------------------------- the native methods

\* What a call comes to: the value returned (or that an exception was thrown),
\* every invocation the native method saw, and the object state it leaves
\* (the canvas for the canvas methods, the sample buffer for the audio one).
Returned(v, calls, st) == [val |-> v, threw |-> FALSE, calls |-> calls, st |-> st]
Thrown(e, calls, st) == [val |-> e, threw |-> TRUE, calls |-> calls, st |-> st]

Invocation(recv, args) == [recv |-> recv, args |-> args]

\* The canvas is CanvasW x 1 pixels of RGBA bytes.
CanvasBytes == 4 * CanvasW

\* The content a page draws, from a seed: byte i of the flattened RGBA stream.
Drawing(seed) == [i \in 1..CanvasBytes |-> (seed + 37 * (i - 1)) % 256]

BlankCanvas == [pixels |-> [i \in 1..CanvasBytes |-> 0], ctx |-> "none",
                fillStyle |-> "#000000"]

\* The native getImageData(x, 0, w, 1): a fresh copy of the region's bytes;
\* an IndexSizeError for an empty region.
NativeGetImageData(cv, recv, args) ==
    IF "getImageData" \in missing
    THEN Thrown("TypeError", <<>>, cv)
    ELSE IF Len(args) < 2 \/ args[2] = 0
    THEN Thrown("IndexSizeError", <<Invocation(recv, args)>>, cv)
    ELSE Returned(SubSeq(cv.pixels, 4 * args[1] + 1, 4 * (args[1] + args[2])),
                  <<Invocation(recv, args)>>, cv)

\* The native encoder: a lossless image of the canvas bitmap.
NativeToDataURL(cv, recv, args) ==
    IF "toDataURL" \in missing
    THEN Thrown("TypeError", <<>>, cv)
    ELSE Returned([mime |-> "image/png", image |-> cv.pixels],
                  <<Invocation(recv, args)>>, cv)

\* canvas.getContext('2d'): binds a 2d context to a canvas that has none, and
\* is null on a canvas bound to another kind of context.
GetContext(cv, kind) ==
    IF cv.ctx = "none" THEN [cv EXCEPT !.ctx = kind] ELSE cv

\* ctx.fillRect(0, 0, 1, 1) with a fillStyle of the given colour and alpha, in
\* the context's default drawing state (source-over): the first pixel blended.
Blend(src, dst, a) == (src * a + dst * (255 - a)) \div 255

FillRect1x1(cv, rgba) ==
    [cv EXCEPT !.pixels = [i \in 1..CanvasBytes |->
        IF i <= 4 THEN Blend(rgba[i], cv.pixels[i], rgba[4]) ELSE cv.pixels[i]]]

\* What the driver reports for a WebGL parameter, per GPU.
NativeParameterValue(g, p) ==
    CASE p = UNMASKED_VENDOR_WEBGL -> (IF g = "nvidia" THEN "NVIDIA Corporation" ELSE "Intel Inc.")
      [] p = UNMASKED_RENDERER_WEBGL -> (IF g = "nvidia" THEN "NVIDIA GeForce GTX" ELSE "Intel Iris OpenGL Engine")
      [] p = 7936 -> "WebKit"
      [] OTHER -> (IF g = "nvidia" THEN "16384" ELSE "8192")

\* The native getParameter: a TypeError on a receiver that is no WebGL context.
NativeGetParameter(recv, args) ==
    IF "getParameter" \in missing
    THEN Thrown("TypeError", <<>>, recv)
    ELSE IF recv # "gl"
    THEN Thrown("TypeError", <<Invocation(recv, args)>>, recv)
    ELSE IF Len(args) = 0
    THEN Thrown("TypeError", <<Invocation(recv, args)>>, recv)
    ELSE Returned(NativeParameterValue(gpu, args[1]), <<Invocation(recv, args)>>, recv)

\* The native getChannelData(channel): the channel's live sample buffer, the
\* same Float32Array on every call; an IndexSizeError for a channel that the
\* buffer does not have.
NativeGetChannelData(samples, recv, args) ==
    IF "getChannelData" \in missing
    THEN Thrown("TypeError", <<>>, samples)
    ELSE IF Len(args) = 0 \/ args[1] # 0
    THEN Thrown("IndexSizeError", <<Invocation(recv, args)>>, samples)
    ELSE Returned(samples, <<Invocation(recv, args)>>, samples)

\* The native permissions.query: a promise of the engine's own permission
\* state, which a headless engine reports as "prompt" for notifications
\* whatever Notification.permission says.
NativePermissionState(name) == IF name = "notifications" THEN "prompt" ELSE "granted"

NativeQuery(recv, args) ==
    IF Len(args) = 0
    THEN Returned([promise |-> "rejected", state |-> "TypeError"],
                  <<Invocation(recv, args)>>, recv)
    ELSE Returned([promise |-> "resolved", state |-> NativePermissionState(args[1])],
                  <<Invocation(recv, args)>>, recv)

\* ------------------------------------------------------------ the wrappers

RECURSIVE BitXor(_, _)
BitXor(a, b) ==
    IF a = 0 /\ b = 0 THEN 0
    ELSE (((a % 2) + (b % 2)) % 2) + 2 * BitXor(a \div 2, b \div 2)

\* A variant of the pixel noise that flips the lowest bit only.
PixelNoise_LowBit(buf) ==
    [i \in 1..Len(buf) |->
        IF (i - 1) % PixelStride = 0 THEN BitXor(buf[i], 1) ELSE buf[i]]

\* A variant of the pixel noise that perturbs the first channel of every pixel.
PixelNoise_EveryPixel(buf) ==
    [i \in 1..Len(buf) |->
        IF (i - 1) % 4 = 0 THEN BitXor(buf[i], PixelMask) ELSE buf[i]]

\* for (let i = 0; i < data.data.length; i += 10) data.data[i] = data.data[i] ^ 0x11
\* (index i of the code is element i + 1 of the sequence)
PixelNoise(buf) ==
    [i \in 1..Len(buf) |->
        IF (i - 1) % PixelStride = 0 THEN BitXor(buf[i], PixelMask) ELSE buf[i]]

\* for (let i = 0; i < data.length; i += 100) data[i] = data[i] + 1e-7
\* (samples are exact multiples of 1e-7; Float32 rounding is not modelled)
AudioNoise(buf) ==
    [i \in 1..Len(buf) |->
        IF (i - 1) % AudioStride = 0 THEN buf[i] + AudioEpsilon ELSE buf[i]]

\* The try block of the toDataURL wrapper: get the canvas's 2d context and,
\* when there is one, set its fillStyle and fill a transparent 1x1 rectangle.
TouchCanvas(cv) ==
    LET c == GetContext(cv, "2d") IN
    IF c.ctx = "2d"
    THEN FillRect1x1([c EXCEPT !.fillStyle = "rgba(0,0,0,0)"], <<0, 0, 0, 0>>)
    ELSE c

\* Each wrapper below is the function the script installs, d wrappers deep:
\* the wrapper at depth d holds the one at depth d - 1 as its original, and
\* depth 0 is the native method.

\* A variant of the toDataURL wrapper that calls the original without the
\* caller's arguments.
RECURSIVE PatchedToDataURL_NoArgs(_, _, _, _)
PatchedToDataURL_NoArgs(d, cv, recv, args) ==
    IF d = 0 THEN NativeToDataURL(cv, recv, args)
    ELSE PatchedToDataURL_NoArgs(d - 1, TouchCanvas(cv), recv, <<>>)

RECURSIVE PatchedToDataURL(_, _, _, _)
PatchedToDataURL(d, cv, recv, args) ==
    IF d = 0 THEN NativeToDataURL(cv, recv, args)
    ELSE PatchedToDataURL(d - 1, TouchCanvas(cv), recv, args)

\* A variant of the getImageData wrapper that writes the noise back to the
\* canvas it read from.
RECURSIVE PatchedGetImageData_WriteBack(_, _, _, _)
PatchedGetImageData_WriteBack(d, cv, recv, args) ==
    IF d = 0 THEN NativeGetImageData(cv, recv, args)
    ELSE LET data == PatchedGetImageData_WriteBack(d - 1, cv, recv, args) IN
         IF data.threw THEN data
         ELSE [data EXCEPT
                 !.val = PixelNoise(data.val),
                 !.st = [data.st EXCEPT !.pixels = [i \in 1..CanvasBytes |->
                     IF i > 4 * args[1] /\ i <= 4 * (args[1] + args[2])
                     THEN PixelNoise(data.val)[i - 4 * args[1]]
                     ELSE data.st.pixels[i]]]]

\* A variant of the getImageData wrapper that calls the original inside its
\* try block: what the original throws is caught, and nothing is returned.
RECURSIVE PatchedGetImageData_Swallow(_, _, _, _)
PatchedGetImageData_Swallow(d, cv, recv, args) ==
    IF d = 0 THEN NativeGetImageData(cv, recv, args)
    ELSE LET data == PatchedGetImageData_Swallow(d - 1, cv, recv, args) IN
         IF data.threw THEN Returned("undefined", data.calls, data.st)
         ELSE [data EXCEPT !.val = PixelNoise(data.val)]

RECURSIVE PatchedGetImageData(_, _, _, _)
PatchedGetImageData(d, cv, recv, args) ==
    IF d = 0 THEN NativeGetImageData(cv, recv, args)
    ELSE LET data == PatchedGetImageData(d - 1, cv, recv, args) IN
         IF data.threw THEN data ELSE [data EXCEPT !.val = PixelNoise(data.val)]

\* A variant of the getParameter wrapper that masks the vendor only.
RECURSIVE PatchedGetParameter_VendorOnly(_, _, _)
PatchedGetParameter_VendorOnly(d, recv, args) ==
    IF d = 0 THEN NativeGetParameter(recv, args)
    ELSE IF Len(args) > 0 /\ args[1] = UNMASKED_VENDOR_WEBGL
    THEN Returned("Intel Inc.", <<>>, recv)
    ELSE PatchedGetParameter_VendorOnly(d - 1, recv, args)

RECURSIVE PatchedGetParameter(_, _, _)
PatchedGetParameter(d, recv, args) ==
    IF d = 0 THEN NativeGetParameter(recv, args)
    ELSE IF Len(args) > 0 /\ args[1] = UNMASKED_VENDOR_WEBGL
    THEN Returned("Intel Inc.", <<>>, recv)
    ELSE IF Len(args) > 0 /\ args[1] = UNMASKED_RENDERER_WEBGL
    THEN Returned("Intel Iris OpenGL Engine", <<>>, recv)
    ELSE PatchedGetParameter(d - 1, recv, args)

\* A variant of the getChannelData wrapper that perturbs the channel's samples
\* first and calls the original afterwards.
RECURSIVE PatchedGetChannelData_NoiseFirst(_, _, _, _)
PatchedGetChannelData_NoiseFirst(d, samples, recv, args) ==
    IF d = 0 THEN NativeGetChannelData(samples, recv, args)
    ELSE PatchedGetChannelData_NoiseFirst(d - 1, AudioNoise(samples), recv, args)

RECURSIVE PatchedGetChannelData(_, _, _, _)
PatchedGetChannelData(d, samples, recv, args) ==
    IF d = 0 THEN NativeGetChannelData(samples, recv, args)
    ELSE LET data == PatchedGetChannelData(d - 1, samples, recv, args) IN
         IF data.threw THEN data
         ELSE [data EXCEPT !.val = AudioNoise(data.val), !.st = AudioNoise(data.val)]

\* A variant of the query wrapper that answers what a headless engine is
\* expected to say instead of reading Notification.permission.
RECURSIVE PatchedQuery_Denied(_, _, _)
PatchedQuery_Denied(d, recv, args) ==
    IF d = 0 THEN NativeQuery(recv, args)
    ELSE IF Len(args) > 0 /\ args[1] = "notifications" /\ "Notification" \in apis
    THEN Returned([promise |-> "resolved", state |-> "denied"], <<>>, recv)
    ELSE PatchedQuery_Denied(d - 1, recv, args)

\* Naming Notification where the engine has none is a ReferenceError, which
\* the wrapper's try swallows before it falls through to the original.
RECURSIVE PatchedQuery(_, _, _)
PatchedQuery(d, recv, args) ==
    IF d = 0 THEN NativeQuery(recv, args)
    ELSE IF Len(args) > 0 /\ args[1] = "notifications" /\ "Notification" \in apis
    THEN Returned([promise |-> "resolved", state |-> notifPerm], <<>>, recv)
    ELSE PatchedQuery(d - 1, recv, args)

\* ------------------------------------------------------------------- engines

\* What an engine under automation reports before the script runs.
NativeValue(p, full) ==
    CASE p = "languages" -> "en-GB"
      [] p = "platform" -> "Linux x86_64"
      [] p = "hardwareConcurrency" -> "4"
      [] p = "deviceMemory" -> "4"
      [] p = "webdriver" -> "true"
      [] p = "userAgentData" -> "NavigatorUAData"
      [] p = "plugins" -> (IF full THEN "PluginArray(5)" ELSE "PluginArray(0)")
      [] OTHER -> (IF full THEN "MimeTypeArray(2)" ELSE "MimeTypeArray(0)")

\* The engine's descriptor of navigator property p: none for a property the
\* engine does not have, not configurable for a locked one.
NativeDesc(p, locked, absent, full) ==
    IF p \in absent THEN NoProp ELSE GetterProp(NativeValue(p, full), p \notin locked)

NoProps == [p \in NavProps |-> NoProp]

\* window property names an automation driver (or the page) may have left
N_cdc == <<"c","d","c","_","a">>
N_ucdc == <<"_","c","d","c","_","a">>
N_Selenium == <<"_","S","e","l","e","n","i","u","m">>
N_app == <<"a","p","p">>

WinProperty(name, conf) == [name |-> name, conf |-> conf, enum |-> TRUE, val |-> "object"]

\* The decoded samples of the audio channel, in units of 1e-7.
DecodedSamples == [i \in 1..AudioLen |-> ((i * 7) % 13) - 6]

NoCall == [m |-> "none", depth |-> 0, recv |-> "", args |-> <<>>, pre |-> "",
           val |-> "", threw |-> FALSE, calls |-> <<>>]

NoImage == [n |-> 0, args |-> <<>>, val |-> <<>>]

\* The document as the driver hands it to the script: an engine drawn from the
\* given choices, no wrapper installed, nothing drawn, nothing called.
InitWith(ApiSets, Wheres, LockSets, AbsentSets, Fulls, Wins, Perms, MissingSets, Gpus) ==
    /\ apis \in ApiSets
    /\ \E where \in Wheres, locked \in LockSets, absent \in AbsentSets, full \in Fulls :
          LET native == [p \in NavProps |-> NativeDesc(p, locked, absent, full)] IN
          /\ navOwn = IF where = "own" THEN native ELSE NoProps
          /\ navProto = IF where = "own" THEN NoProps ELSE native
    /\ hasPerms \in Perms
    /\ missing \in MissingSets
    /\ win \in Wins
    /\ gpu \in Gpus
    /\ fn = [m \in Methods |-> 0]
    /\ canvas = BlankCanvas
    /\ audio = DecodedSamples
    /\ notifPerm = "denied"
    /\ applied = 0
    /\ escaped = FALSE
    /\ audioReads = 0
    /\ ret = NoCall
    /\ firstImage = NoImage
    /\ steps = <<>>
    /\ firstSamples = <<>>
    /\ winBefore = <<>>

\* -------------------------------------------------------------------- actions

\* The driver runs the injected script on the document: the whole IIFE.
Apply ==
    /\ applied < MaxApply
    /\ LET r == RunScript(Host) IN
       /\ navOwn' = r.h.own
       /\ navProto' = r.h.proto
       /\ fn' = r.h.fn
       /\ win' = r.h.win
       /\ escaped' = r.exc
       /\ steps' = r.h.log
    /\ winBefore' = win
    /\ applied' = applied + 1
    /\ firstImage' = NoImage
    /\ firstSamples' = <<>>
    /\ UNCHANGED <<apis, hasPerms, missing, canvas, audio, notifPerm, gpu, audioReads, ret,
                   searchVars>>

CallRecord(m, d, recv, args, pre, r) ==
    [m |-> m, depth |-> d, recv |-> recv, args |-> args, pre |-> pre,
     val |-> r.val, threw |-> r.threw, calls |-> r.calls]

hostVars == <<apis, navOwn, navProto, hasPerms, missing, fn, win, gpu, applied, escaped,
              steps, winBefore>>

\* Page code: canvas.getContext(kind) on a canvas that has no context yet.
PageGetContext(kind) ==
    /\ "HTMLCanvasElement" \in apis
    /\ kind = "2d" => "CanvasRenderingContext2D" \in apis
    /\ kind = "webgl" => "WebGLRenderingContext" \in apis
    /\ canvas.ctx = "none"
    /\ canvas' = GetContext(canvas, kind)
    /\ UNCHANGED <<hostVars, searchVars, audio, notifPerm, audioReads, firstSamples, ret, firstImage>>

\* Page code draws on the canvas through its context (a call that returns
\* nothing: the record of the last call is cleared).
Draw(seed) ==
    /\ canvas.ctx # "none"
    /\ canvas.pixels # Drawing(seed)
    /\ canvas' = [canvas EXCEPT !.pixels = Drawing(seed)]
    /\ firstImage' = NoImage
    /\ ret' = NoCall
    /\ UNCHANGED <<hostVars, searchVars, audio, notifPerm, audioReads, firstSamples>>

\* Page code: canvas.toDataURL(...args)
CallToDataURL(args) ==
    /\ "HTMLCanvasElement" \in apis
    /\ LET r == PatchedToDataURL(fn["toDataURL"], canvas, "canvas", args) IN
       /\ ret' = CallRecord("toDataURL", fn["toDataURL"], "canvas", args, canvas, r)
       /\ canvas' = r.st
    /\ UNCHANGED <<hostVars, searchVars, audio, notifPerm, audioReads, firstSamples, firstImage>>

\* Page code: ctx.getImageData(x, 0, w, 1), args = <<x, w>>
CallGetImageData(args) ==
    /\ canvas.ctx = "2d"
    /\ firstImage.n < MaxImageReads
    /\ LET r == PatchedGetImageData(fn["getImageData"], canvas, "ctx", args) IN
       /\ ret' = CallRecord("getImageData", fn["getImageData"], "ctx", args, canvas, r)
       /\ canvas' = r.st
       /\ firstImage' = IF r.threw THEN firstImage
                        ELSE IF firstImage.n = 0 THEN [n |-> 1, args |-> args, val |-> r.val]
                        ELSE IF firstImage.args = args THEN [firstImage EXCEPT !.n = @ + 1]
                        ELSE firstImage
    /\ UNCHANGED <<hostVars, searchVars, audio, notifPerm, audioReads, firstSamples>>

\* Page code: getParameter called on recv with args
CallGetParameter(recv, args) ==
    /\ "WebGLRenderingContext" \in apis
    /\ LET r == PatchedGetParameter(fn["getParameter"], recv, args) IN
       ret' = CallRecord("getParameter", fn["getParameter"], recv, args, recv, r)
    /\ UNCHANGED <<hostVars, searchVars, canvas, audio, notifPerm, audioReads, firstSamples, firstImage>>

\* Page code: buffer.getChannelData(...args)
CallGetChannelData(args) ==
    /\ "AudioBuffer" \in apis
    /\ audioReads < MaxAudioReads
    /\ LET r == PatchedGetChannelData(fn["getChannelData"], audio, "buffer", args) IN
       /\ ret' = CallRecord("getChannelData", fn["getChannelData"], "buffer", args, audio, r)
       /\ audio' = r.st
       /\ firstSamples' = IF r.threw \/ firstSamples # <<>> THEN firstSamples ELSE r.val
    /\ audioReads' = audioReads + 1
    /\ UNCHANGED <<hostVars, searchVars, canvas, notifPerm, firstImage>>

\* Page code writes other samples into the channel (the decoded ones at
\* another gain): the reads start over on the new content.
CopyToChannel(gain) ==
    /\ "AudioBuffer" \in apis
    /\ audio # [i \in 1..AudioLen |-> gain * DecodedSamples[i]]
    /\ audio' = [i \in 1..AudioLen |-> gain * DecodedSamples[i]]
    /\ firstSamples' = <<>>
    /\ ret' = NoCall
    /\ UNCHANGED <<hostVars, searchVars, canvas, notifPerm, audioReads, firstImage>>

\* Page code: navigator.permissions.query(...args), args = <<name>> for {name}
CallQuery(args) ==
    /\ hasPerms
    /\ "query" \notin missing
    /\ LET r == PatchedQuery(fn["query"], "permissions", args) IN
       ret' = CallRecord("query", fn["query"], "permissions", args, notifPerm, r)
    /\ UNCHANGED <<hostVars, searchVars, canvas, audio, notifPerm, audioReads, firstSamples, firstImage>>

\* The user answers (or the driver sets) the notification permission.
SetNotificationPermission(p) ==
    /\ "Notification" \in apis
    /\ p # notifPerm
    /\ notifPerm' = p
    /\ UNCHANGED <<hostVars, searchVars, canvas, audio, audioReads, firstSamples, ret, firstImage>>

ImageArgs == {<<0, CanvasW>>, <<1, CanvasW - 1>>, <<0, 0>>}
ParameterArgs == {<<UNMASKED_VENDOR_WEBGL>>, <<UNMASKED_RENDERER_WEBGL>>, <<7936>>,
                  <<3379>>, <<3379, "extra">>}

\* The page redraws the canvas; its first drawing, on the blank canvas, is any
\* content (every byte value comes first in the stream of one of them).
DrawSome == \E seed \in {7, 200} : Draw(seed)
DrawAny == \E seed \in 0..255 : canvas.pixels = BlankCanvas.pixels /\ Draw(seed)
PageGetsContext == \E kind \in {"2d", "webgl"} : PageGetContext(kind)
PageCallsToDataURL == \E args \in {<<>>, <<"image/png">>} : CallToDataURL(args)
PageCallsGetImageData == \E args \in ImageArgs : CallGetImageData(args)
PageCallsGetParameter ==
    \E recv \in {"gl", "object"}, args \in ParameterArgs : CallGetParameter(recv, args)
PageCallsGetChannelData == \E args \in {<<0>>, <<1>>} : CallGetChannelData(args)
PageWritesSamples == \E gain \in {0, 1, 2} : CopyToChannel(gain)
PageCallsQuery ==
    \E args \in {<<"notifications">>, <<"geolocation">>, <<>>} : CallQuery(args)
PermissionChanges ==
    \E p \in {"default", "granted", "denied"} : SetNotificationPermission(p)

\* ------------------------------------------------------------ the search page

\* type TaskStatus
TaskStatuses ==
    {"pending", "started", "scraping", "processing", "completed", "failed", "timeout"}

\* status.status === 'completed' || status.status === 'failed'
IsTerminal(st) == st.status = "completed" \/ st.status = "failed"

\* A TaskStatusResponse, as far as the page looks at it: its status and
\* whether it carries a result.
StatusResponses ==
    {[status |-> x, result |-> "null"] : x \in TaskStatuses}
        \cup {[status |-> "completed", result |-> "CompanyInfo"]}

\* null, for a TaskStatusResponse and for an error message
NoStatus == [status |-> "null", result |-> "null"]
NoError == "null"

\* A call of pollTaskStatus(taskId, onProgress, maxAttempts, interval) in
\* flight, with the handleSearch that awaits it when Home made the call:
\* where it stands, its attempts counter, and what it has done so far (status
\* requests issued, statuses fetched, calls of onProgress).
NewLoop(home, pc, maxAttempts, hasProgress) ==
    [home |-> home, pc |-> pc, maxAttempts |-> maxAttempts, hasProgress |-> hasProgress,
     attempts |-> 0, requests |-> 0, fetched |-> 0, progressed |-> 0,
     lastFetched |-> NoStatus, lastProgress |-> NoStatus,
     result |-> NoStatus, thrown |-> NoError]

\* while (attempts < maxAttempts) { const status = await getTaskStatus(taskId) ...
\* } throw new Error('Task polling timeout')
LoopHead(l) ==
    IF l.attempts < l.maxAttempts
    THEN [l EXCEPT !.pc = "fetching", !.requests = @ + 1]
    ELSE [l EXCEPT !.pc = "threw", !.thrown = "Task polling timeout"]

\* A variant of the loop body that tests for a terminal status before it
\* reports the status to onProgress.
OnStatus_CheckFirst(l, st) ==
    LET got == [l EXCEPT !.fetched = @ + 1, !.lastFetched = st] IN
    IF IsTerminal(st) THEN [got EXCEPT !.pc = "returned", !.result = st]
    ELSE [got EXCEPT !.progressed = IF l.hasProgress THEN @ + 1 ELSE @,
                     !.lastProgress = IF l.hasProgress THEN st ELSE @,
                     !.attempts = @ + 1, !.pc = "sleeping"]

\* The loop body from the fetched status on: if (onProgress) onProgress(status);
\* if (terminal) return status; attempts++; await the interval timer.
OnStatus(l, st) ==
    LET got == [l EXCEPT !.fetched = @ + 1, !.lastFetched = st,
                         !.progressed = IF l.hasProgress THEN @ + 1 ELSE @,
                         !.lastProgress = IF l.hasProgress THEN st ELSE @]
    IN  IF IsTerminal(st) THEN [got EXCEPT !.pc = "returned", !.result = st]
        ELSE [got EXCEPT !.attempts = @ + 1, !.pc = "sleeping"]

\* getTaskStatus threw: the exception leaves pollTaskStatus
OnStatusError(l) == [l EXCEPT !.pc = "threw", !.thrown = "Failed to get task status"]

Finished(l) == l.pc \in {"returned", "threw"}

\* What Home renders, from its state.
ShowsErrorBanner == error # NoError
ShowsProgress == isSearching /\ currentStatus # NoStatus
ShowsResults ==
    currentStatus # NoStatus /\ currentStatus.status = "completed"
        /\ currentStatus.result # "null"
ShowsEmptyState == ~isSearching /\ currentStatus = NoStatus /\ error = NoError

\* query.trim()
Trim(q) == IF q = " " THEN "" ELSE q

\* Home as it mounts: nothing searched, nothing typed, nothing in flight.
HomeMounted ==
    /\ isSearching = FALSE
    /\ currentStatus = NoStatus
    /\ error = NoError
    /\ query = ""
    /\ loops = <<>>
    /\ started = 0
    /\ lastEnd = "none"

\* handleSearch(query), up to its first await: the three state resets and
\* the request that creates the task.
handleSearch ==
    /\ started < MaxSearches
    /\ isSearching' = TRUE
    /\ error' = NoError
    /\ currentStatus' = NoStatus
    /\ loops' = Append(loops, NewLoop(TRUE, "creating", HomeMaxAttempts, TRUE))
    /\ started' = started + 1
    /\ UNCHANGED <<lastEnd, patchVars>>

\* The user edits the input, which is disabled while a search is in progress.
TypeQuery(q) ==
    /\ ~isSearching
    /\ q # query
    /\ query' = q
    /\ UNCHANGED <<isSearching, currentStatus, error, loops, started, lastEnd, patchVars>>

\* A variant of the form's submit handler that does not look at isLoading.
handleSubmit_Unguarded ==
    /\ Trim(query) # ""
    /\ handleSearch
    /\ UNCHANGED query

\* SearchBar.handleSubmit: if (query.trim() && !isLoading) onSearch(query.trim())
handleSubmit ==
    /\ Trim(query) # ""
    /\ ~isSearching
    /\ handleSearch
    /\ UNCHANGED query

\* A click on one of the example buttons, which are part of the empty state.
ClickExample ==
    /\ ShowsEmptyState
    /\ handleSearch
    /\ UNCHANGED query

\* A variant of the end of handleSearch with no finally block: isSearching is
\* reset after the try block only.
EndOfSearch_NoFinally(l) ==
    [isSearching |-> IF l.pc = "threw" THEN isSearching ELSE FALSE,
     error |-> IF l.pc = "threw" THEN l.thrown ELSE error,
     lastEnd |-> l.pc]

\* The rest of handleSearch once its try block is over: catch (err)
\* { setError(err.message) } finally { setIsSearching(false) }
EndOfSearch(l) ==
    [isSearching |-> FALSE,
     error |-> IF l.pc = "threw" THEN l.thrown ELSE error,
     lastEnd |-> l.pc]

\* Loop i has got to l: when that ends a poll Home awaits, handleSearch runs
\* to its end in the same turn.
Settle(i, l) ==
    IF l.home /\ Finished(l)
    THEN /\ loops' = RemoveAt(loops, i)
         /\ isSearching' = EndOfSearch(l).isSearching
         /\ error' = EndOfSearch(l).error
         /\ lastEnd' = EndOfSearch(l).lastEnd
    ELSE /\ loops' = [loops EXCEPT ![i] = l]
         /\ UNCHANGED <<isSearching, error, lastEnd>>

\* createSearchTask resolves: pollTaskStatus is called and makes its first request.
TaskCreated(i) ==
    /\ loops[i].pc = "creating"
    /\ Settle(i, LoopHead(loops[i]))
    /\ UNCHANGED <<currentStatus, query, started, patchVars>>

\* createSearchTask throws (the request failed or timed out).
CreateFails(i) ==
    /\ loops[i].pc = "creating"
    /\ Settle(i, [loops[i] EXCEPT !.pc = "threw", !.thrown = "Failed to create search task"])
    /\ UNCHANGED <<currentStatus, query, started, patchVars>>

\* getTaskStatus resolves with a status: onProgress (setCurrentStatus when
\* Home made the call), the terminal check, and the return or the timer.
StatusArrives(i, st) ==
    /\ loops[i].pc = "fetching"
    /\ currentStatus' = IF loops[i].home /\ loops[i].hasProgress THEN st ELSE currentStatus
    /\ Settle(i, OnStatus(loops[i], st))
    /\ UNCHANGED <<query, started, patchVars>>

\* getTaskStatus throws (the request failed or timed out).
StatusFails(i) ==
    /\ loops[i].pc = "fetching"
    /\ Settle(i, OnStatusError(loops[i]))
    /\ UNCHANGED <<currentStatus, query, started, patchVars>>

\* The interval timer fires: back to the head of the loop.
TimerFires(i) ==
    /\ loops[i].pc = "sleeping"
    /\ Settle(i, LoopHead(loops[i]))
    /\ UNCHANGED <<currentStatus, query, started, patchVars>>

UserTypes == \E q \in {"", " ", "Tesla Motors"} : TypeQuery(q)
TaskIsCreated == \E i \in 1..Len(loops) : TaskCreated(i)
TaskCreationFails == \E i \in 1..Len(loops) : CreateFails(i)
StatusIsFetched == \E i \in 1..Len(loops), st \in StatusResponses : StatusArrives(i, st)
StatusRequestFails == \E i \in 1..Len(loops) : StatusFails(i)
IntervalPasses == \E i \in 1..Len(loops) : TimerFires(i)

\* ------------------------------------------------------------- specifications

OneWindow == {<<WinProperty(N_app, TRUE)>>}

\* The whole document: one engine with every API and one without
\* Notification; the page calls every method, before and after the script.
Init ==
    /\ InitWith({Apis, Apis \ {"Notification"}}, {"proto"}, {{}}, {{}}, {FALSE},
                OneWindow, {TRUE}, {{}}, {"nvidia"})
    /\ HomeMounted

Next ==
    \/ Apply
    \/ PageGetsContext
    \/ DrawSome
    \/ PageCallsToDataURL
    \/ PageCallsGetImageData
    \/ PageCallsGetParameter
    \/ PageCallsGetChannelData
    \/ PageCallsQuery
    \/ PermissionChanges

Spec == Init /\ [][Next]_vars

\* The script on every engine: each API present or not, the native properties
\* on the navigator or on its prototype, locked or not, there or not.
InitHost ==
    /\ InitWith(SUBSET Apis, {"own", "proto"},
                SUBSET {"platform", "webdriver", "plugins"},
                SUBSET {"deviceMemory", "userAgentData"}, {FALSE, TRUE},
                {<<WinProperty(N_app, TRUE)>>,
                 <<WinProperty(N__webdriver, FALSE), WinProperty(N_ucdc, TRUE)>>,
                 <<WinProperty(N_Selenium, TRUE), WinProperty(N_cdc, TRUE),
                   WinProperty(MarkerName, FALSE)>>},
                {FALSE, TRUE}, {{}, {"toDataURL"}}, {"nvidia"})
    /\ HomeMounted

NextHost == Apply

SpecHost == InitHost /\ [][NextHost]_vars

\* The canvas surface: the page draws any content and reads it back.
InitCanvas ==
    /\ InitWith({Apis}, {"proto"}, {{}}, {{}}, {FALSE}, OneWindow, {TRUE}, {{}}, {"nvidia"})
    /\ HomeMounted

NextCanvas ==
    \/ Apply
    \/ PageGetsContext
    \/ DrawAny
    \/ DrawSome
    \/ PageCallsToDataURL
    \/ PageCallsGetImageData

SpecCanvas == InitCanvas /\ [][NextCanvas]_vars

\* The WebGL and permission surfaces: the page queries parameters and
\* permissions while the notification permission changes under it.
InitQueries ==
    /\ InitWith({Apis, Apis \ {"Notification"}}, {"proto"}, {{}}, {{}}, {FALSE},
                OneWindow, {TRUE}, {{}}, {"nvidia", "intel"})
    /\ HomeMounted

NextQueries ==
    \/ Apply
    \/ PageCallsGetParameter
    \/ PageCallsQuery
    \/ PermissionChanges

SpecQueries == InitQueries /\ [][NextQueries]_vars

\* The wrapped methods: the page calls each of them, with valid and invalid
\* arguments and receivers, before and after the script.
InitCalls ==
    /\ InitWith({Apis, Apis \ {"Notification"}}, {"proto"}, {{}}, {{}}, {FALSE},
                OneWindow, {TRUE}, {{}}, {"nvidia"})
    /\ HomeMounted

NextCalls ==
    \/ Apply
    \/ PageGetsContext
    \/ PageCallsToDataURL
    \/ PageCallsGetImageData
    \/ PageCallsGetParameter
    \/ PageCallsGetChannelData
    \/ PageCallsQuery

SpecCalls == InitCalls /\ [][NextCalls]_vars

\* The audio surface: the page reads the channel of a decoded buffer, again
\* and again, and writes to it, before and after the script.
InitAudio ==
    /\ InitWith({Apis}, {"proto"}, {{}}, {{}}, {FALSE}, OneWindow, {TRUE}, {{}}, {"nvidia"})
    /\ HomeMounted

NextAudio ==
    \/ Apply
    \/ PageWritesSamples
    \/ PageCallsGetChannelData

SpecAudio == InitAudio /\ [][NextAudio]_vars

\* The window: every WindowLen properties, in every order, that a driver or a
\* page may have left there, each deletable or not, on one engine.
ArtifactNames == {N__webdriver, N_webdriver, N_ucdc, N_Selenium, N_cdc, N_app}

Windows ==
    {w \in [1..WindowLen -> {WinProperty(n, c) : n \in ArtifactNames, c \in BOOLEAN}] :
        \A i, j \in 1..WindowLen : w[i].name = w[j].name => i = j}

InitWindow ==
    /\ InitWith({Apis}, {"proto"}, {{}}, {{}}, {FALSE}, Windows, {TRUE}, {{}}, {"nvidia"})
    /\ HomeMounted

NextWindow == Apply

SpecWindow == InitWindow /\ [][NextWindow]_vars

\* The document the search page itself runs in: no script injected, no call made.
PlainDocument ==
    InitWith({Apis}, {"proto"}, {{}}, {{}}, {FALSE}, OneWindow, {TRUE}, {{}}, {"nvidia"})

\* The search page: the user types, submits and clicks; requests are answered
\* or fail; timers fire.
InitHome ==
    /\ PlainDocument
    /\ HomeMounted

NextHome ==
    \/ UserTypes
    \/ handleSubmit
    \/ ClickExample
    \/ TaskIsCreated
    \/ TaskCreationFails
    \/ StatusIsFetched
    \/ StatusRequestFails
    \/ IntervalPasses

SpecHome == InitHome /\ [][NextHome]_vars

\* Every request is answered or fails within the client's timeout, and every
\* timer fires.
SpecHomeFair ==
    /\ SpecHome
    /\ WF_vars(TaskIsCreated \/ TaskCreationFails)
    /\ WF_vars(StatusIsFetched \/ StatusRequestFails)
    /\ WF_vars(IntervalPasses)

\* pollTaskStatus called by itself, with any maxAttempts and with or without
\* an onProgress: the call as it stands at its first await.
InitPoll ==
    /\ PlainDocument
    /\ isSearching = FALSE
    /\ currentStatus = NoStatus
    /\ error = NoError
    /\ query = ""
    /\ started = 0
    /\ lastEnd = "none"
    /\ \E maxAttempts \in 0..MaxPollArg, hasProgress \in BOOLEAN :
          loops = <<LoopHead(NewLoop(FALSE, "called", maxAttempts, hasProgress))>>

NextPoll ==
    \/ StatusIsFetched
    \/ StatusRequestFails
    \/ IntervalPasses

SpecPoll == InitPoll /\ [][NextPoll]_vars

\* --------------------------------------------------------------- properties

\* What page code can observe of the patched surfaces in the current state:
\* the navigator getters, what each (patched) method returns for each argument
\* list, and the names on window.
CallResult(r) == [val |-> r.val, threw |-> r.threw]

Observe ==
    [navigator |-> [p \in NavProps |-> NavGet(Host, p)],
     getImageData |-> [a \in ImageArgs |->
         CallResult(PatchedGetImageData(fn["getImageData"], canvas, "ctx", a))],
     toDataURL |-> CallResult(PatchedToDataURL(fn["toDataURL"], canvas, "canvas", <<>>)),
     getParameter |-> [a \in ParameterArgs |->
         CallResult(PatchedGetParameter(fn["getParameter"], "gl", a))],
     getChannelData |->
         CallResult(PatchedGetChannelData(fn["getChannelData"], audio, "buffer", <<0>>)),
     query |-> [a \in {<<"notifications">>, <<"geolocation">>} |->
         CallResult(PatchedQuery(fn["query"], "permissions", a))],
     names |-> {win[i].name : i \in 1..Len(win)}]

IsApply == applied' = applied + 1

MarkerSet == WinHas(win, MarkerName) /\ WinProp(win, MarkerName).val = "true"

\* C1: re-invoking apply() on a document it has already run on throws nothing
\* and changes nothing page code observes on any patched surface (what is
\* observed after two applications is what is observed after one).
C1_ReapplyUnobservable ==
    [][(IsApply /\ applied >= 1) => (~escaped' /\ Observe' = Observe)]_vars

\* C2: when the marker is already set on the global object, a further apply()
\* is a no-op: it installs no override and wraps no method again.
C2_MarkedApplyIsNoOp ==
    [][(IsApply /\ MarkerSet) =>
          (fn' = fn /\ navOwn' = navOwn /\ navProto' = navProto /\ win' = win)]_vars

\* C3: apply() never raises to its caller, whatever host APIs are missing and
\* whatever property redefinition or deletion throws.
C3_ApplyNeverRaises == ~escaped

\* an engine without WebGL, with a locked own webdriver and a window property
\* that cannot be deleted, on which the script has run
C3_Witness ==
    /\ applied >= 1
    /\ "WebGLRenderingContext" \notin apis
    /\ "HTMLCanvasElement" \notin apis
    /\ navOwn["webdriver"].kind # "none" /\ ~navOwn["webdriver"].conf
    /\ WinHas(win, N__webdriver) /\ ~WinProp(win, N__webdriver).conf
    /\ ~escaped

\* The values the script's navigator getters return.
Override(p) ==
    CASE p = "languages" -> "en-US,en"
      [] p = "platform" -> "Win32"
      [] p = "hardwareConcurrency" -> "8"
      [] OTHER -> "8"

IdentityProps == {"languages", "platform", "hardwareConcurrency", "deviceMemory"}

\* Each surface's patch is in effect wherever the engine has that surface's
\* own API (and lets the property be redefined or deleted).
IdentityInEffect ==
    /\ \A p \in IdentityProps : navOwn[p].conf => NavGet(Host, p) = Override(p)
    /\ navOwn["webdriver"].conf => NavGet(Host, "webdriver") = "undefined"
CanvasInEffect ==
    {"HTMLCanvasElement", "CanvasRenderingContext2D"} \subseteq apis
        => fn["toDataURL"] >= 1 /\ fn["getImageData"] >= 1
WebGLInEffect == "WebGLRenderingContext" \in apis => fn["getParameter"] >= 1
AudioInEffect == "AudioBuffer" \in apis => fn["getChannelData"] >= 1
PermissionsInEffect == (hasPerms /\ "query" \notin missing) => fn["query"] >= 1
PluginsInEffect ==
    (navOwn["plugins"].conf /\ NavGet(Host, "plugins") # "undefined")
        => ListLength(NavGet(Host, "plugins")) > 0
ArtifactScanInEffect ==
    \A i \in 1..Len(win) : ArtifactPattern(win[i].name) => ~win[i].conf
MarkerInEffect ==
    /\ WinHas(win, MarkerName)
    /\ WinProp(win, MarkerName).conf => WinProp(win, MarkerName).val = "true"

\* C4: the absence of one surface's host API (no WebGLRenderingContext, say)
\* does not keep apply() from installing the patches of every other surface:
\* after apply(), each surface whose own API is there is patched.
C4_AbsentSurfaceIsolated ==
    applied >= 1 =>
        /\ IdentityInEffect
        /\ CanvasInEffect
        /\ WebGLInEffect
        /\ AudioInEffect
        /\ PermissionsInEffect
        /\ PluginsInEffect
        /\ ArtifactScanInEffect
        /\ MarkerInEffect

\* an engine without WebGL only, every other surface patched
C4_Witness ==
    /\ applied >= 1
    /\ apis = Apis \ {"WebGLRenderingContext"}
    /\ fn["getParameter"] = 0
    /\ fn["toDataURL"] >= 1 /\ fn["getImageData"] >= 1 /\ fn["getChannelData"] >= 1
    /\ fn["query"] >= 1
    /\ \A p \in IdentityProps : NavGet(Host, p) = Override(p)
    /\ NavGet(Host, "webdriver") = "undefined"
    /\ NavGet(Host, "plugins") = "fakePlugins(2)"
    /\ MarkerSet

\* C5: after apply(), on an engine that lets navigator.webdriver be redefined
\* (the navigator has no own, non-configurable webdriver), reading
\* navigator.webdriver yields undefined, whether the engine defined it on the
\* navigator itself or on its prototype.
C5_WebdriverUndefined ==
    (applied >= 1 /\ navOwn["webdriver"].conf) => NavGet(Host, "webdriver") = "undefined"

\* the engine defined webdriver on the prototype, locked there, and it reads
\* undefined after apply()
C5_Witness ==
    /\ applied >= 1
    /\ navProto["webdriver"].kind # "none"
    /\ ~navProto["webdriver"].conf
    /\ navProto["webdriver"].val = "true"
    /\ NavGet(Host, "webdriver") = "undefined"

\* the engine defined its properties, webdriver among them, on the navigator
\* itself (the prototype holds nothing but the script's webdriver getter)
C5_WitnessOwn ==
    /\ applied >= 1
    /\ navProto["platform"].kind = "none"
    /\ navProto["webdriver"].val = "undefined"
    /\ navOwn["webdriver"].kind = "getter"
    /\ NavGet(Host, "webdriver") = "undefined"

\* What the native method would have returned for the last call: the
\* unpatched output on the same object state, receiver and arguments.
UnpatchedImage == NativeGetImageData(ret.pre, ret.recv, ret.args)
UnpatchedDataURL == NativeToDataURL(ret.pre, ret.recv, ret.args)

PatchedImageRead == ret.m = "getImageData" /\ ret.depth >= 1 /\ ~ret.threw

\* C6: repeated calls of the patched getImageData on unchanged canvas content
\* (no draw and no further apply() in between) return buffers byte-identical
\* to the one the first call returned.
C6_RepeatedReadsIdentical ==
    (PatchedImageRead /\ firstImage.n >= 1 /\ firstImage.args = ret.args)
        => ret.val = firstImage.val

\* a third read of the same region of a drawn canvas, after one apply()
C6_Witness ==
    /\ PatchedImageRead
    /\ ret.depth = 1
    /\ firstImage.n >= 3
    /\ firstImage.args = ret.args
    /\ ret.pre.pixels = Drawing(200)
    /\ ret.val # UnpatchedImage.val

\* C7: on identical drawn content, the patched toDataURL returns something
\* else than the unpatched toDataURL does.
C7_DataURLDiffers ==
    (ret.m = "toDataURL" /\ ret.depth >= 1 /\ ~ret.threw)
        => ret.val # UnpatchedDataURL.val

Abs(x) == IF x < 0 THEN -x ELSE x

\* C8 as claimed: a byte the pixel perturbation changed differs from its
\* original value by at most 1.
C8_NoiseAtMostOne ==
    PatchedImageRead =>
        \A i \in 1..Len(ret.val) : Abs(ret.val[i] - UnpatchedImage.val[i]) <= 1

\* C8, amended: a byte the pixel perturbation changed differs from its
\* original value by exactly 15 or 17 (bits 0 and 4 are flipped), for every
\* original byte value.
C8_NoiseIs15Or17 ==
    PatchedImageRead =>
        \A i \in 1..Len(ret.val) :
            ret.val[i] # UnpatchedImage.val[i]
                => Abs(ret.val[i] - UnpatchedImage.val[i]) \in {15, 17}

\* the byte 255 read back as 238, and the byte at index 10 changed as well
C8_Witness ==
    /\ PatchedImageRead
    /\ ret.depth = 1
    /\ ret.args = <<0, CanvasW>>
    /\ UnpatchedImage.val[1] = 255
    /\ ret.val[1] = 238
    /\ ret.val[11] # UnpatchedImage.val[11]

UnpatchedParameter == NativeGetParameter(ret.recv, ret.args)

\* C9: the patched getParameter returns the fixed vendor string for 37445 and
\* the fixed renderer string for 37446 whatever the original would return, and
\* for every other code exactly what the original returns (or throws) when
\* called once with the same receiver and arguments.
C9_GetParameterMasksVendorRenderer ==
    (ret.m = "getParameter" /\ ret.depth >= 1) =>
        IF ret.args[1] = UNMASKED_VENDOR_WEBGL
        THEN ~ret.threw /\ ret.val = "Intel Inc."
        ELSE IF ret.args[1] = UNMASKED_RENDERER_WEBGL
        THEN ~ret.threw /\ ret.val = "Intel Iris OpenGL Engine"
        ELSE /\ ret.val = UnpatchedParameter.val
             /\ ret.threw = UnpatchedParameter.threw
             /\ ret.calls = <<Invocation(ret.recv, ret.args)>>

\* the renderer of an NVIDIA GPU masked
C9_Witness ==
    /\ ret.m = "getParameter"
    /\ ret.depth >= 1
    /\ ret.args = <<UNMASKED_RENDERER_WEBGL>>
    /\ ret.recv = "gl"
    /\ UnpatchedParameter.val = "NVIDIA GeForce GTX"
    /\ ret.val = "Intel Iris OpenGL Engine"

UnpatchedQuery == NativeQuery(ret.recv, ret.args)

PatchedQueryCall == ret.m = "query" /\ ret.depth >= 1

\* C10 as claimed: the patched query, called for 'notifications', resolves to
\* the value of Notification.permission at the time of the call without
\* calling the original; for any other name it returns the original's result.
C10_NotificationsNeverDelegated ==
    PatchedQueryCall =>
        IF ret.args = <<"notifications">>
        THEN ret.val = [promise |-> "resolved", state |-> ret.pre] /\ ret.calls = <<>>
        ELSE ret.val = UnpatchedQuery.val /\ ret.calls = <<Invocation(ret.recv, ret.args)>>

\* C10, amended: that holds where the engine has a Notification global; where
\* it has none, the query for 'notifications' is delegated to the original
\* like any other.
C10_NotificationsLiveWhereDefined ==
    PatchedQueryCall =>
        IF ret.args = <<"notifications">> /\ "Notification" \in apis
        THEN ret.val = [promise |-> "resolved", state |-> ret.pre] /\ ret.calls = <<>>
        ELSE ret.val = UnpatchedQuery.val /\ ret.calls = <<Invocation(ret.recv, ret.args)>>

\* the permission was granted after the script ran, and the query says so
\* where the original would say "prompt"
C10_Witness ==
    /\ PatchedQueryCall
    /\ ret.args = <<"notifications">>
    /\ "Notification" \in apis
    /\ ret.pre = "granted"
    /\ ret.val.state = "granted"
    /\ UnpatchedQuery.val.state = "prompt"

\* C11 as claimed: after apply() no own property name of the global object
\* matches the artifact pattern, whatever names were there before, those whose
\* properties cannot be deleted included.
C11_NoArtifactNameLeft ==
    applied >= 1 => \A i \in 1..Len(win) : ~ArtifactPattern(win[i].name)

\* C11, amended: after apply() every own property name of the global object
\* that matches the artifact pattern belongs to a property that cannot be
\* deleted.
C11_NoDeletableArtifactLeft ==
    applied >= 1 => \A i \in 1..Len(win) : ArtifactPattern(win[i].name) => ~win[i].conf

\* the sweep has removed a deletable artifact next to one it could not delete
C11_Witness ==
    /\ applied >= 1
    /\ WinHas(win, N__webdriver) /\ ~WinProp(win, N__webdriver).conf
    /\ ~WinHas(win, N_ucdc)
    /\ Len(win) = 2

\* The engine has no such navigator property, on the navigator or its prototype.
NoNavProp(own, proto, p) == own[p].kind = "none" /\ proto[p].kind = "none"

\* C12: a patch whose target object or member the engine does not have is a
\* silent no-op: apply() creates no navigator.deviceMemory where there was
\* none, wraps no toDataURL where the canvas prototype had none, wraps no
\* method of a global that is not there, and throws nothing.
C12_AbsentTargetIsNoOp ==
    [][IsApply =>
          /\ NoNavProp(navOwn, navProto, "deviceMemory")
                => NoNavProp(navOwn', navProto', "deviceMemory")
          /\ "toDataURL" \in missing => fn'["toDataURL"] = fn["toDataURL"]
          /\ "WebGLRenderingContext" \notin apis => fn'["getParameter"] = fn["getParameter"]
          /\ "AudioBuffer" \notin apis => fn'["getChannelData"] = fn["getChannelData"]
          /\ ~escaped']_vars

\* The call went past the wrapper's own answers: getParameter was not asked for
\* a masked parameter, query not for 'notifications' beside a Notification global.
Delegated ==
    CASE ret.m = "getParameter" ->
            ~(Len(ret.args) > 0
              /\ ret.args[1] \in {UNMASKED_VENDOR_WEBGL, UNMASKED_RENDERER_WEBGL})
      [] ret.m = "query" ->
            ~(Len(ret.args) > 0 /\ ret.args[1] = "notifications" /\ "Notification" \in apis)
      [] OTHER -> TRUE

PatchedCall == ret.m \in Methods /\ ret.depth >= 1

\* C13: every wrapped method (toDataURL, getImageData, getChannelData, and
\* getParameter and permissions.query when they do not answer by themselves)
\* calls the original exactly once per invocation, with the caller's receiver
\* and the caller's arguments.
C13_OriginalCalledOnce ==
    (PatchedCall /\ Delegated) => ret.calls = <<Invocation(ret.recv, ret.args)>>

\* a patched toDataURL called with an argument, which the original received
C13_Witness ==
    /\ PatchedCall
    /\ ret.m = "toDataURL"
    /\ ret.args = <<"image/png">>
    /\ ret.calls = <<Invocation("canvas", <<"image/png">>)>>

\* What the native method does for the recorded call, on the state it was made in.
UnpatchedCall ==
    CASE ret.m = "toDataURL" -> NativeToDataURL(ret.pre, ret.recv, ret.args)
      [] ret.m = "getImageData" -> NativeGetImageData(ret.pre, ret.recv, ret.args)
      [] ret.m = "getParameter" -> NativeGetParameter(ret.recv, ret.args)
      [] ret.m = "getChannelData" -> NativeGetChannelData(ret.pre, ret.recv, ret.args)
      [] OTHER -> NativeQuery(ret.recv, ret.args)

\* C14: when the original behind a wrapped method throws, the wrapper throws
\* that same exception to the page (it swallows nothing); and a wrapper throws
\* only what its original threw.
C14_OriginalExceptionPropagates ==
    PatchedCall =>
        /\ (ret.calls # <<>> /\ UnpatchedCall.threw)
              => (ret.threw /\ ret.val = UnpatchedCall.val)
        /\ ret.threw
              => (ret.calls # <<>> /\ UnpatchedCall.threw /\ ret.val = UnpatchedCall.val)

\* a patched getImageData of an empty region: the original's IndexSizeError
C14_Witness ==
    /\ PatchedCall
    /\ ret.m = "getImageData"
    /\ ret.args = <<0, 0>>
    /\ ret.threw
    /\ ret.val = "IndexSizeError"

\* Block a is entered before block b in the last run of the script.
Position(block) == CHOOSE i \in 1..Len(steps) : steps[i] = block
EnteredBefore(a, b) ==
    /\ \E i \in 1..Len(steps) : steps[i] = a
    /\ \E i \in 1..Len(steps) : steps[i] = b
    /\ Position(a) < Position(b)

\* C15 as claimed: apply() patches the navigator identity and userAgentData
\* first, then canvas, WebGL and audio, then permissions and plugins, then
\* runs the artifact scan as its last patch step, and only then sets the marker.
C15_ScanIsLastPatchStep ==
    applied >= 1 =>
        /\ \A a \in {"navigator", "userAgentData"}, b \in {"canvas", "webgl", "audio"} :
              EnteredBefore(a, b)
        /\ \A a \in {"canvas", "webgl", "audio"}, b \in {"permissions", "plugins"} :
              EnteredBefore(a, b)
        /\ \A a \in {"permissions", "plugins"} : EnteredBefore(a, "artifacts")
        /\ EnteredBefore("artifacts", "marker")

\* The order the script has: the navigator identity and userAgentData first,
\* then canvas, WebGL and audio, then the artifact scan, then permissions and
\* plugins, and the marker last.
ScanBeforePermissions ==
    applied >= 1 =>
        /\ \A a \in {"navigator", "userAgentData"}, b \in {"canvas", "webgl", "audio"} :
              EnteredBefore(a, b)
        /\ \A a \in {"canvas", "webgl", "audio"} : EnteredBefore(a, "artifacts")
        /\ \A b \in {"permissions", "plugins"} : EnteredBefore("artifacts", b)
        /\ \A a \in {"permissions", "plugins"} : EnteredBefore(a, "marker")
        /\ Len(steps) = 9

\* the script has run all its blocks, the sweep sixth of nine
SweepIsSixth ==
    /\ applied >= 1
    /\ Len(steps) = 9
    /\ steps[6] = "artifacts"
    /\ steps[9] = "marker"

\* C16: after apply() the global object has an own property
\* __stealth_patch_applied__ whose value is true and which is not enumerable
\* (where the document did not already hold a locked property of that name,
\* which no definition can replace).
C16_MarkerTrueNotEnumerable ==
    applied >= 1 =>
        /\ WinHas(win, MarkerName)
        /\ WinProp(win, MarkerName).conf
              => (WinProp(win, MarkerName).val = "true" /\ ~WinProp(win, MarkerName).enum)

\* the script has put the marker on a window that had none
C16_Witness ==
    /\ applied >= 1
    /\ WinHas(win, N_app)
    /\ WinHas(win, MarkerName)
    /\ WinProp(win, MarkerName).conf
    /\ WinProp(win, MarkerName).val = "true"
    /\ ~WinProp(win, MarkerName).enum

\* The navigator's list p is there and empty.
EmptyList(own, proto, p) ==
    NavGetIn(own, proto, p) # "undefined" /\ ListLength(NavGetIn(own, proto, p)) = 0

\* C17: when navigator.plugins or navigator.mimeTypes is an empty list before
\* apply() (and the property can be redefined), after apply() it is a
\* synthetic list that is not empty.
C17_EmptyListsBecomeNonEmpty ==
    [][IsApply =>
          \A p \in {"plugins", "mimeTypes"} :
              (EmptyList(navOwn, navProto, p) /\ navOwn[p].conf)
                  => ListLength(NavGetIn(navOwn', navProto', p)) > 0]_vars

\* C18: when navigator.plugins (resp. navigator.mimeTypes) holds entries before
\* apply(), apply() leaves that list as it is: the property is not redefined,
\* on the navigator or on its prototype.
C18_NonEmptyListsUntouched ==
    [][IsApply =>
          \A p \in {"plugins", "mimeTypes"} :
              ListLength(NavGetIn(navOwn, navProto, p)) > 0
                  => (navOwn'[p] = navOwn[p] /\ navProto'[p] = navProto[p])]_vars

\* the script has run on an engine with real plugins and mimeTypes, which are
\* still the engine's own
C18_Witness ==
    /\ applied >= 1
    /\ navOwn["plugins"].kind = "none"
    /\ navOwn["mimeTypes"].kind = "none"
    /\ NavGet(Host, "plugins") = "PluginArray(5)"
    /\ NavGet(Host, "mimeTypes") = "MimeTypeArray(2)"

\* C19: the patched getChannelData is stateless: on a buffer that page code has
\* not written to, every call returns the sample values the first call
\* returned, the original handing out the same underlying buffer each time.
C19_RepeatedAudioReadsEqual ==
    (ret.m = "getChannelData" /\ ret.depth >= 1 /\ ~ret.threw /\ firstSamples # <<>>)
        => ret.val = firstSamples

\* C20: a call of the patched toDataURL changes nothing a page can observe of
\* the canvas: its pixels, its context's fillStyle and the kind of context
\* bound to it (none, 2d or webgl) are after the call what they were before.
C20_ToDataURLLeavesCanvas ==
    (ret.m = "toDataURL" /\ ret.depth >= 1) => canvas = ret.pre

\* The positions of the buffer (from 1) that fall in its k-th 10-byte stride.
StrideOf(buf, k) ==
    {i \in 1..Len(buf) : (i - 1) \div PixelStride = k}

\* C21: after a single apply(), the buffer the patched getImageData returns is
\* the original's with byte i replaced by (byte i XOR 0x11) at exactly the
\* indices i = 0, 10, 20, ... and every other byte unchanged; so it differs
\* from the unpatched buffer in exactly one byte of every 10-byte stride.
C21_XorEveryTenthByte ==
    (PatchedImageRead /\ ret.depth = 1) =>
        /\ Len(ret.val) = Len(UnpatchedImage.val)
        /\ \A i \in 1..Len(ret.val) :
              ret.val[i] = IF (i - 1) % PixelStride = 0
                           THEN BitXor(UnpatchedImage.val[i], PixelMask)
                           ELSE UnpatchedImage.val[i]
        /\ \A k \in 0..((Len(ret.val) - 1) \div PixelStride) :
              Cardinality({i \in StrideOf(ret.val, k) :
                              ret.val[i] # UnpatchedImage.val[i]}) = 1

\* a read of the whole drawn canvas after one apply(): bytes 0 and 10 are the
\* original's XOR 0x11, in two strides
C21_Witness ==
    /\ PatchedImageRead
    /\ ret.depth = 1
    /\ ret.args = <<0, CanvasW>>
    /\ ret.pre.pixels = Drawing(7)
    /\ ret.val[1] = BitXor(7, PixelMask)
    /\ ret.val[11] # UnpatchedImage.val[11]
    /\ ret.val[2] = UnpatchedImage.val[2]

UnpatchedSamples == NativeGetChannelData(ret.pre, ret.recv, ret.args)

PatchedAudioRead == ret.m = "getChannelData" /\ ret.depth >= 1

\* C22: a call of the patched getChannelData first obtains the original's
\* result and only then adds the fixed epsilon 1e-7 to the samples at indices
\* 0, 100, 200, ..., every other sample being the original's (each wrapper on
\* the chain adding its epsilon to what the one below returned); when the
\* original throws, no sample has been touched.
C22_EpsilonAfterOriginal ==
    PatchedAudioRead =>
        IF ret.threw
        THEN UnpatchedSamples.threw /\ audio = ret.pre
        ELSE /\ ret.calls = <<Invocation(ret.recv, ret.args)>>
             /\ Len(ret.val) = Len(UnpatchedSamples.val)
             /\ \A i \in 1..Len(ret.val) :
                   ret.val[i] = IF (i - 1) % AudioStride = 0
                                THEN UnpatchedSamples.val[i] + ret.depth * AudioEpsilon
                                ELSE UnpatchedSamples.val[i]

\* one wrapper deep, samples 0 and 100 are the original's plus 1e-7 and
\* sample 1 is the original's
C22_Witness ==
    /\ PatchedAudioRead
    /\ ret.depth = 1
    /\ ~ret.threw
    /\ ret.val[1] = ret.pre[1] + AudioEpsilon
    /\ ret.val[AudioStride + 1] = ret.pre[AudioStride + 1] + AudioEpsilon
    /\ ret.val[2] = ret.pre[2]

\* Page code: Object.defineProperty(navigator, p, {value: 'page', configurable: true})
\* on the navigator as the given descriptors have it.
PageRedefines(own, proto, p) ==
    DefineProperty([own |-> own, proto |-> proto], "own", p, DataProp("page", TRUE))

\* C23: after apply() on an engine that lets these navigator properties be
\* defined, navigator.languages reads ['en-US','en'], platform 'Win32',
\* hardwareConcurrency 8 and deviceMemory 8; each descriptor installed is a
\* getter left configurable, so a later Object.defineProperty of the property
\* by page code succeeds and takes effect.
C23_IdentityGettersConfigurable ==
    [][IsApply =>
          \A p \in IdentityProps :
              (navOwn[p].kind = "none" \/ navOwn[p].conf) =>
                  /\ navOwn'[p] = GetterProp(Override(p), TRUE)
                  /\ NavGetIn(navOwn', navProto', p) = Override(p)
                  /\ ~PageRedefines(navOwn', navProto', p).exc
                  /\ NavGet(PageRedefines(navOwn', navProto', p).h, p) = "page"]_vars

\* the script has run on an engine whose native values sat on the prototype:
\* the four getters are the navigator's own, configurable, over the natives
C23_Witness ==
    /\ applied >= 1
    /\ \A p \in IdentityProps : navOwn[p] = GetterProp(Override(p), TRUE)
    /\ navProto["languages"].val = "en-GB"
    /\ navProto["deviceMemory"].val = "4"
    /\ NavGet(Host, "languages") = "en-US,en"
    /\ NavGet(Host, "platform") = "Win32"
    /\ NavGet(Host, "hardwareConcurrency") = "8"
    /\ NavGet(Host, "deviceMemory") = "8"

\* The names the scan is said to go for: an identifier with the prefix cdc_,
\* or one that contains webdriver, driver or selenium, in any letter case.
NamedArtifact(k) ==
    LET s == LowerCase(k) IN
    \/ StartsWith(s, <<"c","d","c","_">>)
    \/ Contains(s, <<"w","e","b","d","r","i","v","e","r">>)
    \/ Contains(s, <<"d","r","i","v","e","r">>)
    \/ Contains(s, <<"s","e","l","e","n","i","u","m">>)

\* C24: the artifact scan goes for every own property name of the global
\* object that is a cdc_-prefixed identifier or contains 'webdriver', 'driver'
\* or 'selenium' in any letter case: after apply() no such name is left whose
\* property is configurable.
C24_CdcPrefixedNamesSwept ==
    applied >= 1 => \A i \in 1..Len(win) : NamedArtifact(win[i].name) => ~win[i].conf

\* The script goes for the property: its name matches the pattern or is one
\* of the two legacy names, and it can be deleted.
SweptProperty(p) ==
    (ArtifactPattern(p.name) \/ p.name \in {N__webdriver, N_webdriver}) /\ p.conf

\* C25: a deletion that fails does not end the sweep: whatever matching
\* properties of the window cannot be deleted, every other matching property
\* that can be, before or after them in enumeration order, and the legacy
\* names __webdriver and _webdriver, are gone after apply(), and every other
\* property is as it was.
C25_FailuresIsolatedPerName ==
    applied >= 1 =>
        \A i \in 1..Len(winBefore) :
            IF SweptProperty(winBefore[i])
            THEN ~WinHas(win, winBefore[i].name)
            ELSE WinHas(win, winBefore[i].name)
                 /\ WinProp(win, winBefore[i].name) = winBefore[i]

\* the run found a locked __webdriver between a deletable _cdc_a and a
\* deletable _webdriver, and left the locked one alone on the window
C25_Witness ==
    /\ applied = 1
    /\ \E i, j, k \in 1..Len(winBefore) :
          /\ i < j /\ j < k
          /\ winBefore[i] = WinProperty(N_ucdc, TRUE)
          /\ winBefore[j] = WinProperty(N__webdriver, FALSE)
          /\ winBefore[k] = WinProperty(N_webdriver, TRUE)
    /\ win[1] = WinProperty(N__webdriver, FALSE)
    /\ ~WinHas(win, N_ucdc)
    /\ ~WinHas(win, N_webdriver)
    /\ WinHas(win, MarkerName)

\* The unpatched buffer with the XOR applied once.
PerturbedOnce(buf) ==
    [i \in 1..Len(buf) |->
        IF (i - 1) % PixelStride = 0 THEN BitXor(buf[i], PixelMask) ELSE buf[i]]

\* C26: with the script applied n times to the same document, the
\* getImageData wrappers nest n deep and the XOR is applied n times to each
\* result: the buffer returned equals the unpatched buffer when n is even and
\* the singly perturbed one when n is odd.
C26_EvenApplicationsCancel ==
    /\ fn["getImageData"] = applied
    /\ (ret.m = "getImageData" /\ ~ret.threw) =>
          ret.val = IF ret.depth % 2 = 0
                    THEN UnpatchedImage.val
                    ELSE PerturbedOnce(UnpatchedImage.val)

\* after two runs, a read of drawn content through two wrappers returns what
\* the native returns
C26_Witness ==
    /\ applied = 2
    /\ ret.m = "getImageData"
    /\ ret.depth = 2
    /\ ~ret.threw
    /\ ret.pre.pixels = Drawing(200)
    /\ ret.val = UnpatchedImage.val
    /\ PerturbedOnce(ret.val) # ret.val

\* C27: pollTaskStatus(taskId, onProgress, maxAttempts, interval) issues at
\* most maxAttempts status requests; it returns the first fetched status that
\* is 'completed' or 'failed' and issues no request after it; after any other
\* status ('timeout' included) it keeps polling, and after exactly maxAttempts
\* non-terminal fetches it throws 'Task polling timeout'; onProgress is called
\* once per fetched status, in fetch order, the terminal one included.
C27_PollContract ==
    \A i \in 1..Len(loops) :
        LET l == loops[i] IN
        /\ l.requests <= l.maxAttempts
        /\ l.fetched <= l.requests
        /\ l.pc = "returned" =>
              /\ IsTerminal(l.result)
              /\ l.result = l.lastFetched
              /\ l.requests = l.fetched
              /\ l.attempts = l.fetched - 1
        /\ (l.pc = "threw" /\ l.thrown = "Task polling timeout") =>
              /\ l.attempts = l.maxAttempts
              /\ l.fetched = l.maxAttempts
              /\ l.requests = l.maxAttempts
        /\ (l.fetched >= 1 /\ ~IsTerminal(l.lastFetched)) =>
              /\ l.attempts = l.fetched
              /\ l.attempts < l.maxAttempts
                    => (l.pc \in {"sleeping", "fetching"}
                        \/ (l.pc = "threw" /\ l.thrown = "Failed to get task status"))
        /\ l.progressed = (IF l.hasProgress THEN l.fetched ELSE 0)
        /\ (l.hasProgress /\ l.fetched >= 1) => l.lastProgress = l.lastFetched

\* a poll with maxAttempts 2 that fetched two non-terminal statuses, the last
\* one 'timeout', reported both, and threw
C27_Witness ==
    /\ Len(loops) = 1
    /\ ~loops[1].home
    /\ loops[1].maxAttempts = 2
    /\ loops[1].pc = "threw"
    /\ loops[1].thrown = "Task polling timeout"
    /\ loops[1].requests = 2
    /\ loops[1].lastFetched.status = "timeout"
    /\ loops[1].hasProgress
    /\ loops[1].progressed = 2

\* C28: at most one search is in flight at any time: while isSearching is
\* true neither the form nor an example button starts another handleSearch, so
\* no two polling loops run side by side (and none runs while isSearching is
\* false).
C28_OneSearchInFlight ==
    [][/\ isSearching => started' = started
       /\ Len(loops') <= 1
       /\ isSearching' <=> Len(loops') = 1]_vars

\* the second search of the session is polling, alone
C28_Witness ==
    /\ started = 2
    /\ isSearching
    /\ Len(loops) = 1
    /\ loops[1].pc = "sleeping"
    /\ loops[1].attempts >= 2
    /\ ShowsProgress

\* C29: every handleSearch ends with isSearching back to false, on every path
\* (the task cannot be created, a status request fails, a terminal status
\* arrives, the poll times out after maxAttempts); and once it has ended the
\* error message is set exactly when createSearchTask or pollTaskStatus threw.
C29_SearchAlwaysEnds ==
    /\ isSearching ~> ~isSearching
    /\ [](isSearching => error = NoError)
    /\ []((~isSearching /\ started >= 1) =>
            /\ lastEnd \in {"returned", "threw"}
            /\ error # NoError <=> lastEnd = "threw")

\* a search that polled maxAttempts times in vain has ended, with the
\* timeout as its error
C29_Witness ==
    /\ started >= 1
    /\ ~isSearching
    /\ loops = <<>>
    /\ lastEnd = "threw"
    /\ error = "Task polling timeout"
    /\ currentStatus.status = "processing"

\* C30: whenever no search is in progress the page renders at least one of
\* the error banner, the results panel and the empty-state prompt, whatever
\* the outcome of the previous search was.
C30_IdlePageShowsSomething ==
    ~isSearching => (ShowsErrorBanner \/ ShowsResults \/ ShowsEmptyState)

====
